---- MODULE Spec2Model ----
(***************************************************************************)
(* Model of the DMR-XPath accelerator: the in-memory Node tree             *)
(* (model.py), the pre/post-order encoder (annotate_traversal_orders),     *)
(* the relational store in its layouts (db.py, window_optimization.py)     *)
(* and the axis functions (axes.py, window_optimization.py).               *)
(***************************************************************************)
EXTENDS Integers, Sequences, FiniteSets, TLC

\* ------------------------------------------------------------------------
\* Bounds of the model
\* ------------------------------------------------------------------------
\* largest tree of the exhaustive shape family (encoder specification)
MaxShape == 5
\* largest tree of the exhaustive typed family (axis specification)
MaxNodes == 3
\* number of leaf children hanging under the hub of a large tree
BigFan == 90
\* number of node handles a caller uses as query context
MaxProbe == 14

\* ------------------------------------------------------------------------
\* Program constants
\* ------------------------------------------------------------------------
\* Python None for an Optional[int] field (db_id, pre_order, post_order)
None == -1
\* Python None / SQL NULL for an Optional[str] field (content, text)
Null == "NULL"
\* both traversal counters start from 1
CounterStart == 1
\* subtree_size above which the descendant scan is level-constrained
SubtreeThreshold == 100
\* number of levels below the context the constrained scan still returns
DepthLimit == 10

VARIABLES
    children,       \* Node.children: node -> sequence of child nodes
    kind,           \* node -> [type, content] (Node.type, Node.content)
    pre_order,      \* Node.pre_order
    post_order,     \* Node.post_order
    db_id,          \* Node.db_id
    level,          \* node.level (set by _calculate_optimization_fields)
    subtree_size,   \* node.subtree_size
    pre_counter,    \* pre_counter[0] of annotate_traversal_orders
    post_counter,   \* post_counter[0]
    stack,          \* active calculate_traversal_orders frames, top last
    tables,         \* names of the tables that exist in the database
    accel,          \* rows of accel
    contentT,       \* rows of content
    NodeT,          \* rows of Node
    EdgeT,          \* rows of Edge
    node_seq,       \* next value of the SERIAL sequence of Node.id
    opt_accel,      \* rows of optimized_accel
    opt_content,    \* rows of optimized_content
    call,           \* the last call made and what it returned
    sessions        \* the axis calls under way, each with its cursor

treeVars == <<children, kind>>
nodeVars == <<pre_order, post_order, db_id, level, subtree_size>>
encVars == <<pre_counter, post_counter, stack>>
stdVars == <<tables, accel, contentT, NodeT, EdgeT, node_seq>>
optVars == <<opt_accel, opt_content>>
vars == <<children, kind, pre_order, post_order, db_id, level, subtree_size,
          pre_counter, post_counter, stack, tables, accel, contentT, NodeT,
          EdgeT, node_seq, opt_accel, opt_content, call, sessions>>

\* ------------------------------------------------------------------------
\* The tree (Node objects, identified by 1..N; the root handle is node 1)
\* ------------------------------------------------------------------------
Nodes == DOMAIN children
N == Cardinality(Nodes)
Root == 1

\* the members of a finite set of integers in ascending order
Ranked(S, rank) == [i \in 1..Cardinality(S) |-> CHOOSE x \in S : rank[x] = i - 1]
SortedSeq(S) == Ranked(S, [x \in S |-> Cardinality({y \in S : y < x})])

Range(s) == {s[i] : i \in DOMAIN s}

\* children lists of the tree built by add_child calls in the order of the
\* node numbers, node i being added to node par[i]
ChildrenOf(n, par) ==
    [i \in 1..n |-> SortedSeq({j \in 2..n : par[j] = i})]

\* every way to build a tree of n nodes by add_child
Shapes(n) == {par \in [2..n -> 1..n] : \A j \in 2..n : par[j] < j}

\* the parent of a node in the tree (None for the root)
ParentOf(v) ==
    IF \E p \in Nodes : v \in Range(children[p])
    THEN CHOOSE p \in Nodes : v \in Range(children[p])
    ELSE None

RECURSIVE AncestorsOf(_)
\* the proper ancestors of a node in the tree
AncestorsOf(v) ==
    IF ParentOf(v) = None THEN {}
    ELSE {ParentOf(v)} \cup AncestorsOf(ParentOf(v))

IsAncestor(a, v) == a \in AncestorsOf(v)

RECURSIVE DescendantsOf(_)
\* the proper descendants of a node: its children and their descendants
DescendantsOf(v) ==
    UNION {{children[v][i]} \cup DescendantsOf(children[v][i]) : i \in DOMAIN children[v]}

RECURSIVE Height(_)
\* the number of edges on the longest path from v down to a leaf
Height(v) ==
    IF children[v] = <<>> THEN 0
    ELSE 1 + (CHOOSE m \in {Height(children[v][i]) : i \in DOMAIN children[v]} :
                \A i \in DOMAIN children[v] : Height(children[v][i]) <= m)

\* ------------------------------------------------------------------------
\* Order encoder (model.py: calculate_traversal_orders)
\* An encoder state e is [pre, post, prec, postc, stack]; a frame of the
\* stack is [node, next]: next is the index of the next child to visit.
\* ------------------------------------------------------------------------
EncState == [pre |-> pre_order, post |-> post_order, prec |-> pre_counter,
             postc |-> post_counter, stack |-> stack]

\* entry of calculate_traversal_orders on node v: lines 43-44
EncEnter(e, v) ==
    [e EXCEPT !.pre = [e.pre EXCEPT ![v] = e.prec],
              !.prec = e.prec + 1,
              !.stack = Append(e.stack, [node |-> v, next |-> 1])]

\* mutant: the post-order number is not counted up
EncReturnNoIncrement(e) ==
    LET top == e.stack[Len(e.stack)]
    IN [e EXCEPT !.post = [e.post EXCEPT ![top.node] = e.postc],
                 !.stack = SubSeq(e.stack, 1, Len(e.stack) - 1)]

\* mutant: the post-order number is taken from the pre-order counter
EncReturnPreCounter(e) ==
    LET top == e.stack[Len(e.stack)]
    IN [e EXCEPT !.post = [e.post EXCEPT ![top.node] = e.prec - 1],
                 !.postc = e.postc + 1,
                 !.stack = SubSeq(e.stack, 1, Len(e.stack) - 1)]

\* after the loop over the children: lines 51-52, then the frame returns
EncReturn(e) ==
    LET top == e.stack[Len(e.stack)]
    IN [e EXCEPT !.post = [e.post EXCEPT ![top.node] = e.postc],
                 !.postc = e.postc + 1,
                 !.stack = SubSeq(e.stack, 1, Len(e.stack) - 1)]

\* the loop at lines 47-48 takes the next child and calls into it
EncDescend(e) ==
    LET d == Len(e.stack)
        top == e.stack[d]
        child == children[top.node][top.next]
    IN EncEnter([e EXCEPT !.stack[d].next = top.next + 1], child)

\* mutant: the loop over the children stops before the last child
EncHasChildSkipsLast(e) ==
    LET top == e.stack[Len(e.stack)]
    IN top.next < Len(children[top.node])

\* the top frame still has a child to visit
EncHasChild(e) ==
    LET top == e.stack[Len(e.stack)]
    IN top.next <= Len(children[top.node])

\* one step of the running traversal
EncStep(e) == IF EncHasChild(e) THEN EncDescend(e) ELSE EncReturn(e)

\* mutant: the counters go on from where the last run left them
EncStartKeepCounters(e) == EncEnter([e EXCEPT !.stack = <<>>], Root)

\* annotate_traversal_orders lines 185-189: fresh counters, call on the root
EncStart(e) ==
    EncEnter([e EXCEPT !.prec = CounterStart, !.postc = CounterStart,
                       !.stack = <<>>], Root)

RECURSIVE EncSteps(_, _)
\* k steps of the traversal, or fewer when it returns to its caller before
EncSteps(e, k) ==
    IF k = 0 \/ e.stack = <<>> THEN e
    ELSE IF k = 1 THEN EncStep(e)
    ELSE EncSteps(EncSteps(e, k \div 2), k - (k \div 2))

\* the traversal run to its end: every node is entered once and returns once
EncRun(e) == EncSteps(e, 2 * N)

EncSet(e) ==
    /\ stack' = e.stack
    /\ pre_order' = e.pre
    /\ post_order' = e.post
    /\ pre_counter' = e.prec
    /\ post_counter' = e.postc

Idle == stack = <<>>

\* the record of a call: function, argument, direction argument (siblings
\* only), how it ended ("ok": returned, "error": raised) and what it returned
CalledDir(op, arg, direction, status, result) ==
    [op |-> op, arg |-> arg, direction |-> direction, status |-> status,
     result |-> result]
Called(op, arg, status, result) == CalledDir(op, arg, "", status, result)

\* annotate_traversal_orders is called; the traversal enters the root
AnnotateCall ==
    /\ Idle
    /\ EncSet(EncStart(EncState))
    /\ call' = Called("annotate_traversal_orders", Root, "running", <<>>)
    /\ UNCHANGED <<sessions, treeVars, db_id, level, subtree_size, stdVars, optVars>>

\* the traversal calls into the next child
AnnotateDescend ==
    /\ ~Idle
    /\ EncHasChild(EncState)
    /\ EncSet(EncDescend(EncState))
    /\ UNCHANGED <<sessions, treeVars, db_id, level, subtree_size, stdVars, optVars, call>>

\* a frame numbers its node in post-order and returns
AnnotateReturn ==
    /\ ~Idle
    /\ ~EncHasChild(EncState)
    /\ EncSet(EncReturn(EncState))
    /\ call' = IF Len(stack) = 1
               THEN Called("annotate_traversal_orders", Root, "ok", <<>>)
               ELSE call
    /\ UNCHANGED <<sessions, treeVars, db_id, level, subtree_size, stdVars, optVars>>

\* annotate_traversal_orders as one call: the traversal run to its end
annotate_traversal_orders ==
    /\ Idle
    /\ EncSet(EncRun(EncStart(EncState)))
    /\ call' = Called("annotate_traversal_orders", Root, "ok", <<>>)
    /\ UNCHANGED <<sessions, treeVars, db_id, level, subtree_size, stdVars, optVars>>

\* number of nodes up to which add_child lets a tree grow
MaxGrow == 3

\* the per-node field f with the fields of a new node added, holding x
Grown(f, x) == [v \in 1..(N + 1) |-> IF v = N + 1 THEN x ELSE f[v]]

\* p.add_child(Node(type, content)): a new node, every field as the
\* constructor leaves it, is appended to the children of p
AddChild(p, k) ==
    /\ children' = [Grown(children, <<>>) EXCEPT ![p] = Append(children[p], N + 1)]
    /\ kind' = Grown(kind, k)
    /\ pre_order' = Grown(pre_order, None)
    /\ post_order' = Grown(post_order, None)
    /\ db_id' = Grown(db_id, None)
    /\ level' = Grown(level, None)
    /\ subtree_size' = Grown(subtree_size, None)
    /\ call' = Called("add_child", p, "ok", <<>>)

RECURSIVE CalculatePostOrder(_, _)
RECURSIVE CalculatePostOrderAll(_, _, _)
\* calculate_post_order(counter) on node v; st is [post, counter]: the
\* children from first to last, then the node itself
PostAssign(v, st) ==
    [post |-> [st.post EXCEPT ![v] = st.counter], counter |-> st.counter + 1]
CalculatePostOrder(v, st) == PostAssign(v, CalculatePostOrderAll(children[v], 1, st))
CalculatePostOrderAll(cs, i, st) ==
    IF i > Len(cs) THEN st
    ELSE CalculatePostOrderAll(cs, i + 1, CalculatePostOrder(cs[i], st))

\* root.calculate_post_order([1])
calculate_post_order ==
    /\ Idle
    /\ post_order' = CalculatePostOrder(Root, [post |-> post_order,
                                               counter |-> CounterStart]).post
    /\ call' = Called("calculate_post_order", Root, "ok", <<>>)
    /\ UNCHANGED <<sessions, treeVars, pre_order, db_id, level, subtree_size, encVars,
                   stdVars, optVars>>

\* ------------------------------------------------------------------------
\* The store (db.py, window_optimization.py). A failed statement raises;
\* the caller rolls the call's rows back, so a failed call leaves the
\* tables as they were, while the db_id fields it has set stay set.
\* ------------------------------------------------------------------------
StdTables == {"attribute", "content", "accel", "Edge", "Node"}
OptTables == {"optimized_content", "optimized_accel"}

\* mutant: the SERIAL sequence of Node.id outlives the table
setup_schema_keeps_sequence(use_original_schema) ==
    /\ Idle
    /\ tables' = (tables \ StdTables) \cup
                 (IF use_original_schema THEN {"Node", "Edge"}
                  ELSE {"accel", "content", "attribute"})
    /\ accel' = {}
    /\ contentT' = {}
    /\ NodeT' = {}
    /\ EdgeT' = {}
    /\ node_seq' = node_seq
    /\ call' = Called("setup_schema", IF use_original_schema THEN 1 ELSE 0, "ok", <<>>)
    /\ UNCHANGED <<sessions, treeVars, nodeVars, encVars, optVars>>

\* setup_schema(cur, use_original_schema): drop the five tables, then
\* create Node/Edge or accel/content/attribute
setup_schema(use_original_schema) ==
    /\ Idle
    /\ tables' = (tables \ StdTables) \cup
                 (IF use_original_schema THEN {"Node", "Edge"}
                  ELSE {"accel", "content", "attribute"})
    /\ accel' = {}
    /\ contentT' = {}
    /\ NodeT' = {}
    /\ EdgeT' = {}
    /\ node_seq' = 1
    /\ call' = Called("setup_schema", IF use_original_schema THEN 1 ELSE 0, "ok", <<>>)
    /\ UNCHANGED <<sessions, treeVars, nodeVars, encVars, optVars>>

\* setup_schema(cur) of xpath_paul.py: drop Edge and Node and create them
\* again; the tables of the ordered layout are left as they are
xpath_paul_setup_schema ==
    /\ Idle
    /\ tables' = tables \cup {"Node", "Edge"}
    /\ NodeT' = {}
    /\ EdgeT' = {}
    /\ node_seq' = 1
    /\ call' = Called("xpath_paul.setup_schema", Root, "ok", <<>>)
    /\ UNCHANGED <<sessions, treeVars, nodeVars, encVars, accel, contentT, optVars>>

\* clear_db(): drop the tables it names, optimized_content not among
\* them, and commit
clear_db ==
    /\ Idle
    /\ tables' = tables \ (StdTables \cup {"optimized_accel"})
    /\ accel' = {}
    /\ contentT' = {}
    /\ NodeT' = {}
    /\ EdgeT' = {}
    /\ node_seq' = 1
    /\ opt_accel' = {}
    /\ call' = Called("clear_db", Root, "ok", <<>>)
    /\ UNCHANGED <<sessions, treeVars, nodeVars, encVars, opt_content>>

\* setup_optimized_schema: drop and create optimized_accel/optimized_content
setup_optimized_schema ==
    /\ Idle
    /\ tables' = tables \cup OptTables
    /\ opt_accel' = {}
    /\ opt_content' = {}
    /\ call' = Called("setup_optimized_schema", Root, "ok", <<>>)
    /\ UNCHANGED <<sessions, treeVars, nodeVars, encVars, accel, contentT, NodeT, EdgeT, node_seq>>

\* one call of a recursive method on a node: the node, the node whose
\* call made it (None for the root), its index in that node's children
\* (enumerate) and its depth below the root
Visit(v, p, position, lvl) ==
    [node |-> v, parent |-> p, position |-> position, level |-> lvl]

RECURSIVE PreSeq(_, _, _, _)
RECURSIVE PreSeqAll(_, _, _, _)
\* the calls a recursive method makes from node v on, in order: the call
\* on v itself, then the calls on its children from first to last
PreSeq(v, p, position, lvl) ==
    <<Visit(v, p, position, lvl)>> \o PreSeqAll(v, 1, Len(children[v]), lvl + 1)
\* the calls on the children lo..hi of node p
PreSeqAll(p, lo, hi, lvl) ==
    IF lo > hi THEN <<>>
    ELSE IF lo = hi THEN PreSeq(children[p][lo], p, lo - 1, lvl)
    ELSE LET h == (lo + hi) \div 2
         IN PreSeqAll(p, lo, h, lvl) \o PreSeqAll(p, h + 1, hi, lvl)

\* the calls of a method invoked on the root
RootCalls == PreSeq(Root, None, 0, 0)

\* content is not None and content.strip()
HasText(c) == c # Null /\ c # "" /\ c # " "

Ids(rows) == {r.id : r \in rows}

\* Node.s_id: every node carries its own label, the number of the node
SId(v) == v

\* the id insert_to_db gives a node: its db_id, or its post_order when unset
NewId(dbid, v) == IF dbid[v] = None THEN post_order[v] ELSE dbid[v]

\* the accel row of node v (model.py lines 89-92)
AccelRow(dbid, c) ==
    [id |-> dbid[c.node], s_id |-> SId(c.node),
     pre_order |-> pre_order[c.node], post_order |-> post_order[c.node],
     parent |-> IF c.parent = None THEN None ELSE dbid[c.parent],
     type |-> kind[c.node].type]

\* mutant: pre_order and post_order are nullable columns
AccelAcceptsNullable(st, row) ==
    /\ "accel" \in tables
    /\ row.id # None
    /\ row.id \notin Ids(st.accel)
    /\ row.parent # None => row.parent \in Ids(st.accel)

\* the INSERT INTO accel is accepted: table present, primary key set and
\* new, NOT NULL columns set, parent row present
AccelAccepts(st, row) ==
    /\ "accel" \in tables
    /\ row.id # None
    /\ row.id \notin Ids(st.accel)
    /\ row.pre_order # None
    /\ row.post_order # None
    /\ row.parent # None => row.parent \in Ids(st.accel)

\* the body of insert_to_db for the call c (lines 84-106); st is [dbid,
\* accel, content, ok], ok turning FALSE when a statement raises
InsertRow(st, v, dbid, row) ==
    IF ~AccelAccepts(st, row)
    THEN [st EXCEPT !.dbid = dbid, !.ok = FALSE]
    ELSE [st EXCEPT !.dbid = dbid,
                    !.accel = st.accel \cup {row},
                    !.content = IF HasText(kind[v].content)
                                THEN st.content \cup
                                     {[id |-> row.id, text |-> kind[v].content]}
                                ELSE st.content]
InsertWithId(st, c, dbid) == InsertRow(st, c.node, dbid, AccelRow(dbid, c))
InsertNode(st, c) ==
    InsertWithId(st, c, [st.dbid EXCEPT ![c.node] = NewId(st.dbid, c.node)])

RECURSIVE InsertToDb(_, _)
\* mutant: the children are inserted before the node that holds them
InsertToDbLastFirst(seq, st) ==
    IF seq = <<>> \/ ~st.ok THEN st
    ELSE IF Len(seq) = 1 THEN InsertNode(st, seq[1])
    ELSE LET h == Len(seq) \div 2
         IN InsertToDb(SubSeq(seq, 1, h), InsertToDb(SubSeq(seq, h + 1, Len(seq)), st))

\* insert_to_db over the nodes of seq from first to last, stopping at the
\* first statement that raises
InsertToDb(seq, st) ==
    IF seq = <<>> \/ ~st.ok THEN st
    ELSE IF Len(seq) = 1 THEN InsertNode(st, seq[1])
    ELSE LET h == Len(seq) \div 2
         IN InsertToDb(SubSeq(seq, h + 1, Len(seq)), InsertToDb(SubSeq(seq, 1, h), st))

\* root_node.insert_to_db(cur) followed by the caller's commit or rollback
Inserted(st) ==
    /\ db_id' = st.dbid
    /\ accel' = IF st.ok THEN st.accel ELSE accel
    /\ contentT' = IF st.ok THEN st.content ELSE contentT
    /\ call' = Called("insert_to_db", Root, IF st.ok THEN "ok" ELSE "error", <<>>)
insert_to_db ==
    /\ Idle
    /\ Inserted(InsertToDb(RootCalls,
           [dbid |-> db_id, accel |-> accel, content |-> contentT, ok |-> TRUE]))
    /\ UNCHANGED <<sessions, treeVars, pre_order, post_order, level, subtree_size, encVars,
                   tables, NodeT, EdgeT, node_seq, optVars>>

\* the body of insert_to_original_db for node v (lines 123-133); st is
\* [dbid, node, edge, seq, ok]: the Node row takes the next SERIAL value;
\* ok turns FALSE when the INSERT raises for want of the table
InsertOriginalNode(st, c) ==
    LET v == c.node
        dbid == [st.dbid EXCEPT ![v] = st.seq]
    IN IF ~({"Node", "Edge"} \subseteq tables) THEN [st EXCEPT !.ok = FALSE]
       ELSE [dbid |-> dbid,
             node |-> st.node \cup {[id |-> st.seq, s_id |-> SId(v),
                                     type |-> kind[v].type,
                                     content |-> kind[v].content]},
             edge |-> IF c.parent = None THEN st.edge
                      ELSE st.edge \cup {[from_node |-> dbid[c.parent],
                                          to_node |-> st.seq,
                                          position |-> c.position]},
             seq |-> st.seq + 1,
             ok |-> TRUE]

RECURSIVE InsertToOriginalDb(_, _)
\* insert_to_original_db over the nodes of seq from first to last
InsertToOriginalDb(seq, st) ==
    IF seq = <<>> \/ ~st.ok THEN st
    ELSE IF Len(seq) = 1 THEN InsertOriginalNode(st, seq[1])
    ELSE LET h == Len(seq) \div 2
         IN InsertToOriginalDb(SubSeq(seq, h + 1, Len(seq)),
                               InsertToOriginalDb(SubSeq(seq, 1, h), st))

\* number of copies of the tree the Node table may hold
MaxLoads == 1

OriginalInserted(st) ==
    /\ db_id' = st.dbid
    /\ NodeT' = IF st.ok THEN st.node ELSE NodeT
    /\ EdgeT' = IF st.ok THEN st.edge ELSE EdgeT
    /\ node_seq' = st.seq
    /\ call' = Called("insert_to_original_db", Root,
                      IF st.ok THEN "ok" ELSE "error", <<>>)

\* root_node.insert_to_original_db(cur) followed by commit or rollback
insert_to_original_db ==
    /\ Idle
    /\ Cardinality(NodeT) < MaxLoads * N
    /\ OriginalInserted(InsertToOriginalDb(RootCalls,
           [dbid |-> db_id, node |-> NodeT, edge |-> EdgeT, seq |-> node_seq,
            ok |-> TRUE]))
    /\ UNCHANGED <<sessions, treeVars, pre_order, post_order, level, subtree_size, encVars,
                   tables, accel, contentT, optVars>>

RECURSIVE SubtreeSize(_)
RECURSIVE SubtreeSizes(_)
\* mutant: the count does not start with the node itself
SubtreeSizeWithoutSelf(v) == SubtreeSizes(children[v])

\* node.subtree_size as _calculate_optimization_fields leaves it: 1 for
\* the node itself plus the subtree_size of every child (lines 91-96)
SubtreeSize(v) == 1 + SubtreeSizes(children[v])
SubtreeSizes(cs) ==
    IF cs = <<>> THEN 0
    ELSE IF Len(cs) = 1 THEN SubtreeSize(cs[1])
    ELSE LET h == Len(cs) \div 2
         IN SubtreeSizes(SubSeq(cs, 1, h)) + SubtreeSizes(SubSeq(cs, h + 1, Len(cs)))

\* mutant: the root is given level 1
LevelsFromOne(calls) ==
    [v \in Nodes |-> calls[CHOOSE i \in DOMAIN calls : calls[i].node = v].level + 1]

\* _calculate_optimization_fields(root_node, 0): node.level is the level
\* argument of the call on the node (line 90), 0 at the root and level + 1
\* for a child (lines 83, 95)
LevelsIn(calls) ==
    [v \in Nodes |-> calls[CHOOSE i \in DOMAIN calls : calls[i].node = v].level]
CalcFields ==
    [level |-> LevelsIn(RootCalls), size |-> [v \in Nodes |-> SubtreeSize(v)]]

\* the optimized_accel row of node v (window_optimization.py lines 107-113)
OptRow(dbid, f, c) ==
    [id |-> dbid[c.node], s_id |-> SId(c.node), type |-> kind[c.node].type,
     parent |-> IF c.parent = None THEN None ELSE dbid[c.parent],
     pre_order |-> pre_order[c.node], post_order |-> post_order[c.node],
     level |-> f.level[c.node], subtree_size |-> f.size[c.node]]

\* the INSERT INTO optimized_accel is accepted
OptAccepts(st, row) ==
    /\ "optimized_accel" \in tables
    /\ row.id # None
    /\ row.id \notin Ids(st.accel)
    /\ row.pre_order # None
    /\ row.post_order # None

\* the body of _insert_optimized_node_recursive for node v (lines 103-120)
InsertOptimizedRow(st, v, dbid, row) ==
    IF ~OptAccepts(st, row)
    THEN [st EXCEPT !.dbid = dbid, !.ok = FALSE]
    ELSE [st EXCEPT !.dbid = dbid,
                    !.accel = st.accel \cup {row},
                    !.content = IF HasText(kind[v].content)
                                THEN st.content \cup
                                     {[id |-> row.id, text |-> kind[v].content]}
                                ELSE st.content]
InsertOptimizedWithId(st, f, c, dbid) ==
    InsertOptimizedRow(st, c.node, dbid, OptRow(dbid, f, c))
InsertOptimizedNode(st, f, c) ==
    InsertOptimizedWithId(st, f, c, [st.dbid EXCEPT ![c.node] = NewId(st.dbid, c.node)])

RECURSIVE InsertOptimized(_, _, _)
\* _insert_optimized_node_recursive over the nodes of seq from first to last
InsertOptimized(seq, f, st) ==
    IF seq = <<>> \/ ~st.ok THEN st
    ELSE IF Len(seq) = 1 THEN InsertOptimizedNode(st, f, seq[1])
    ELSE LET h == Len(seq) \div 2
         IN InsertOptimized(SubSeq(seq, h + 1, Len(seq)), f,
                            InsertOptimized(SubSeq(seq, 1, h), f, st))

\* accelerator.insert_optimized_data(root) followed by commit or rollback
OptimizedInserted(f, st) ==
    /\ level' = f.level
    /\ subtree_size' = f.size
    /\ db_id' = st.dbid
    /\ opt_accel' = IF st.ok THEN st.accel ELSE opt_accel
    /\ opt_content' = IF st.ok THEN st.content ELSE opt_content
    /\ call' = Called("insert_optimized_data", Root,
                      IF st.ok THEN "ok" ELSE "error", <<>>)
OptimizedLoad(f) ==
    OptimizedInserted(f, InsertOptimized(RootCalls, f,
        [dbid |-> db_id, accel |-> opt_accel, content |-> opt_content, ok |-> TRUE]))
insert_optimized_data ==
    /\ Idle
    /\ OptimizedLoad(CalcFields)
    /\ UNCHANGED <<sessions, treeVars, pre_order, post_order, encVars, stdVars>>

\* ------------------------------------------------------------------------
\* Query helpers: a result is [status, rows], rows a sequence of tuples
\* <<id, type, text>> as fetchall returns them
\* ------------------------------------------------------------------------
Ok(rows) == [status |-> "ok", rows |-> rows]
Raised == [status |-> "error", rows |-> <<>>]

IdSet(rows) == {rows[i][1] : i \in DOMAIN rows}

\* c.text of LEFT JOIN content c ON a.id = c.id
TextOf(ctable, id) ==
    IF \E c \in ctable : c.id = id
    THEN (CHOOSE c \in ctable : c.id = id).text
    ELSE Null

RowById(table, id) == CHOOSE r \in table : r.id = id

\* ORDER BY: P is a set of <<key, id, row>>; the rows by ascending key
\* (rows of equal key by id)
KeyBefore(x, y) == x[1] < y[1] \/ (x[1] = y[1] /\ x[2] < y[2])
Third(seq) == [i \in DOMAIN seq |-> seq[i][3]]
RECURSIVE OrderWithin(_, _, _)
\* the members of P whose keys lie in lo..hi, in order: the key range is
\* halved until the members of a part share one key
OrderWithin(P, lo, hi) ==
    IF P = {} THEN <<>>
    ELSE IF lo >= hi \/ Cardinality(P) = 1
    THEN Ranked(P, [x \in P |-> Cardinality({y \in P : KeyBefore(y, x)})])
    ELSE OrderWithin({x \in P : x[1] <= (lo + hi) \div 2}, lo, (lo + hi) \div 2)
         \o OrderWithin({x \in P : x[1] > (lo + hi) \div 2}, (lo + hi) \div 2 + 1, hi)
\* sort keys are ids, order numbers and positions, or their negatives
KeyMax == N + node_seq
OrderBy(P) == Third(OrderWithin(P, 0 - KeyMax, KeyMax))

\* SELECT a.id, a.type, c.text FROM accel a LEFT JOIN content c over the
\* the ORDER BY clauses of the queries
ById == "id"
ByPre == "pre_order"
ByPost == "post_order"
ByPostDesc == "post_order DESC"
ByPosition == "position"
ByPositionDesc == "position DESC"

\* the sort key of row r under an ORDER BY clause
KeyOf(r, by) ==
    CASE by = ById -> r.id
      [] by = ByPre -> r.pre_order
      [] by = ByPost -> r.post_order
      [] by = ByPostDesc -> 0 - r.post_order
      [] by = ByPosition -> r.position
      [] by = ByPositionDesc -> 0 - r.position

\* the rows S as (id, type, text), in the order of the clause
AccelRows(S, by) ==
    OrderBy({<<KeyOf(a, by), a.id, <<a.id, a.type, TextOf(contentT, a.id)>>>> : a \in S})
OptRows(S, by) ==
    OrderBy({<<KeyOf(a, by), a.id, <<a.id, a.type, TextOf(opt_content, a.id)>>>> : a \in S})
NodeRows(S, by) ==
    OrderBy({<<KeyOf(n, by), n.id, <<n.id, n.type, n.content>>>> : n \in S})

HasAccel == "accel" \in tables
HasNode == {"Node", "Edge"} \subseteq tables

\* Python truth value of an Optional[str]
Truthy(c) == c # Null /\ c # ""

RECURSIVE ParentClosure(_, _)
\* WITH RECURSIVE ... UNION over the parent column of table: S and
\* every non-NULL parent reached from S
ParentClosure(table, S) ==
    LET T == S \cup {a.parent : a \in {r \in table : r.id \in S /\ r.parent # None}}
    IN IF T = S THEN S ELSE ParentClosure(table, T)

RECURSIVE ChildClosure(_, _)
\* WITH RECURSIVE ... UNION over the children: S and every row whose
\* parent is in S
ChildClosure(table, S) ==
    LET T == S \cup {a.id : a \in {r \in table : r.parent \in S}}
    IN IF T = S THEN S ELSE ChildClosure(table, T)

RECURSIVE EdgeUpClosure(_)
\* ancestors CTE of the Node/Edge schema: from_node of every edge into S
EdgeUpClosure(S) ==
    LET T == S \cup {e.from_node : e \in {x \in EdgeT : x.to_node \in S}}
    IN IF T = S THEN S ELSE EdgeUpClosure(T)

RECURSIVE EdgeDownClosure(_)
\* descendants CTE of the Node/Edge schema: the edges reached from D
EdgeDownClosure(D) ==
    LET T == D \cup {e \in EdgeT : \E d \in D : e.from_node = d.to_node}
    IN IF T = D THEN D ELSE EdgeDownClosure(T)

\* ------------------------------------------------------------------------
\* Closure strategy (axes.py: descendant_nodes, siblings)
\* ------------------------------------------------------------------------
\* mutant: the recursive part of the CTE is missing (children only)
\* mutant: the CTE stops at the children
AccelDescendantsChildrenOnly(node_id) == {a.id : a \in {r \in accel : r.parent = node_id}}

\* the descendants CTE on accel (lines 74-80)
AccelDescendants(node_id) ==
    ChildClosure(accel, {a.id : a \in {r \in accel : r.parent = node_id}})

descendant_nodes(node_id) ==
    IF HasAccel
    THEN Ok(AccelRows({a \in accel : a.id \in AccelDescendants(node_id)}, ById))
    ELSE IF HasNode
    THEN LET D == EdgeDownClosure({e \in EdgeT : e.from_node = node_id})
         IN Ok(NodeRows({n \in NodeT : \E d \in D : n.id = d.to_node}, ById))
    ELSE Raised

\* rows of Edge JOIN Node below parent_id, of type article, at the
\* positions after (following) or before (preceding) position, ordered by
\* position ascending or descending (lines 181-206)
EdgeSiblingRows(parent_id, position, direction) ==
    OrderBy({<<KeyOf(x[1], IF direction = "following" THEN ByPosition ELSE ByPositionDesc),
               x[1].to_node, <<x[2].id, x[2].type, x[2].content>>>> :
             x \in {y \in EdgeT \X NodeT :
                      /\ y[1].to_node = y[2].id
                      /\ y[1].from_node = parent_id
                      /\ IF direction = "following"
                         THEN y[1].position > position
                         ELSE y[1].position < position
                      /\ y[2].type = "article"}})

\* the Node/Edge branch shared by siblings and the *_window_original
\* sibling functions (lines 162-206, 279-308, 316-345)
EdgeSiblings(node_id, direction) ==
    IF ~HasNode THEN Raised
    ELSE IF ~(\E n \in NodeT : n.id = node_id) \/ RowById(NodeT, node_id).type # "article"
    THEN Ok(<<>>)
    ELSE IF ~(\E e \in EdgeT : e.to_node = node_id) THEN Ok(<<>>)
    ELSE LET edge == CHOOSE e \in EdgeT : e.to_node = node_id
         IN Ok(EdgeSiblingRows(edge.from_node, edge.position, direction))

\* siblings on accel: article rows under the same parent, by post_order
AccelSiblings(node_id, direction) ==
    IF ~(\E a \in accel : a.id = node_id) \/ RowById(accel, node_id).type # "article"
    THEN Ok(<<>>)
    ELSE LET row == RowById(accel, node_id)
         IN IF row.parent = None \/ row.parent = 0 THEN Ok(<<>>)
            ELSE IF direction = "following"
            THEN Ok(AccelRows({a \in accel : /\ a.parent = row.parent
                                             /\ a.type = "article"
                                             /\ a.post_order > row.post_order}, ByPost))
            ELSE Ok(AccelRows({a \in accel : /\ a.parent = row.parent
                                             /\ a.type = "article"
                                             /\ a.post_order < row.post_order}, ByPostDesc))

siblings(node_id, direction) ==
    IF HasAccel THEN AccelSiblings(node_id, direction)
    ELSE EdgeSiblings(node_id, direction)

\* ------------------------------------------------------------------------
\* Range strategy (axes.py: xpath_*_window and their *_original fallbacks)
\* ------------------------------------------------------------------------
\* mutant: the CTE stops at the parents of the author rows
AccelAuthorParentsOnly(text) ==
    {a.parent : a \in {r \in accel : /\ r.type = "author"
                                     /\ TextOf(contentT, r.id) = text
                                     /\ r.parent # None}}

\* ancestors of all author rows with the given text, on accel (lines 384-401)
AccelAuthorAncestors(text) ==
    ParentClosure(accel,
        {a.parent : a \in {r \in accel : /\ r.type = "author"
                                         /\ TextOf(contentT, r.id) = text
                                         /\ r.parent # None}})

\* mutant: the pre_order bound of the ancestor scan is missing
AccelAncestorScanPostOnly(context_pre, context_post) ==
    {a \in accel : a.post_order > context_post}

\* the ancestor range scan (lines 404-411)
AccelAncestorScan(context_pre, context_post) ==
    {a \in accel : a.pre_order < context_pre /\ a.post_order > context_post}

\* ancestors of all author rows with the given content, on Node/Edge
\* (lines 43-53); a NULL parameter equals nothing
EdgeAuthorAncestors(text) ==
    EdgeUpClosure({e.from_node : e \in {x \in EdgeT : \E n \in NodeT :
                      /\ n.id = x.to_node /\ n.type = "author"
                      /\ text # Null /\ n.content = text}})

\* the rows S as (id, s_id, type, text), as ancestor_nodes selects them
AccelLabelRows(S, by) ==
    OrderBy({<<KeyOf(a, by), a.id, <<a.id, a.s_id, a.type, TextOf(contentT, a.id)>>>> :
             a \in S})
NodeLabelRows(S, by) ==
    OrderBy({<<KeyOf(n, by), n.id, <<n.id, n.s_id, n.type, n.content>>>> : n \in S})

\* the closure strategy of the ancestor axis: the ancestors of every
\* author whose text is node_content
ancestor_nodes(node_content) ==
    IF HasAccel
    THEN Ok(AccelLabelRows({a \in accel : /\ node_content # Null
                                          /\ a.id \in AccelAuthorAncestors(node_content)},
                           ById))
    ELSE IF HasNode
    THEN Ok(NodeLabelRows({n \in NodeT : n.id \in EdgeAuthorAncestors(node_content)}, ById))
    ELSE Raised

xpath_ancestor_window_original(context_node_id) ==
    IF ~HasNode THEN Raised
    ELSE LET found == \E n \in NodeT : n.id = context_node_id
             info == RowById(NodeT, context_node_id)
         IN IF found /\ info.type = "author" /\ Truthy(info.content)
            THEN LET A == EdgeUpClosure(
                            {e.from_node : e \in {x \in EdgeT : \E n \in NodeT :
                                 /\ n.id = x.to_node /\ n.type = "author"
                                 /\ n.content = info.content}})
                 IN Ok(NodeRows({n \in NodeT : n.id \in A}, ById))
            ELSE LET A == EdgeUpClosure(
                            {e.from_node : e \in {x \in EdgeT : x.to_node = context_node_id}})
                 IN Ok(NodeRows({n \in NodeT : n.id \in A}, ById))

xpath_ancestor_window(context_node_id) ==
    IF HasAccel
    THEN IF ~(\E a \in accel : a.id = context_node_id) THEN Ok(<<>>)
         ELSE LET row == RowById(accel, context_node_id)
                  node_content == TextOf(contentT, context_node_id)
              IN IF row.type = "author" /\ Truthy(node_content)
                 THEN Ok(AccelRows({a \in accel : a.id \in AccelAuthorAncestors(node_content)},
                                   ById))
                 ELSE Ok(AccelRows(AccelAncestorScan(row.pre_order, row.post_order), ByPre))
    ELSE xpath_ancestor_window_original(context_node_id)

\* the descendant range scan (lines 452-459)
AccelDescendantScan(context_pre, context_post) ==
    {a \in accel : a.pre_order > context_pre /\ a.post_order < context_post}

xpath_descendant_window_original(context_node_id) ==
    IF ~HasNode THEN Raised
    ELSE LET D == EdgeDownClosure({e \in EdgeT : e.from_node = context_node_id})
         IN Ok(NodeRows({n \in NodeT : \E d \in D : n.id = d.to_node}, ById))

\* mutant: the check of the fetched context row is missing, so that an
\* absent context raises when the row is unpacked
xpath_descendant_window_unchecked(context_node_id) ==
    IF HasAccel
    THEN IF ~(\E a \in accel : a.id = context_node_id) THEN Raised
         ELSE LET row == RowById(accel, context_node_id)
              IN Ok(AccelRows(AccelDescendantScan(row.pre_order, row.post_order), ByPre))
    ELSE xpath_descendant_window_original(context_node_id)

xpath_descendant_window(context_node_id) ==
    IF HasAccel
    THEN IF ~(\E a \in accel : a.id = context_node_id) THEN Ok(<<>>)
         ELSE LET row == RowById(accel, context_node_id)
              IN Ok(AccelRows(AccelDescendantScan(row.pre_order, row.post_order), ByPre))
    ELSE xpath_descendant_window_original(context_node_id)

\* mutant: the article filter is applied to every context type
AccelFollowingScanArticlesOnly(context_parent, context_pre, context_type) ==
    {a \in accel : /\ a.parent = context_parent /\ a.pre_order > context_pre
                   /\ a.type = "article"}

\* the following-sibling scan (lines 499-519)
AccelFollowingScan(context_parent, context_pre, context_type) ==
    IF context_type = "article"
    THEN {a \in accel : /\ a.parent = context_parent /\ a.pre_order > context_pre
                        /\ a.type = "article"}
    ELSE {a \in accel : a.parent = context_parent /\ a.pre_order > context_pre}

\* mutant: the pre_order bound of the preceding-sibling scan is missing
AccelPrecedingScanUnbounded(context_parent, context_pre, context_type) ==
    IF context_type = "article"
    THEN {a \in accel : a.parent = context_parent /\ a.type = "article"}
    ELSE {a \in accel : a.parent = context_parent}

\* the preceding-sibling scan (lines 559-579)
AccelPrecedingScan(context_parent, context_pre, context_type) ==
    IF context_type = "article"
    THEN {a \in accel : /\ a.parent = context_parent /\ a.pre_order < context_pre
                        /\ a.type = "article"}
    ELSE {a \in accel : a.parent = context_parent /\ a.pre_order < context_pre}

xpath_following_sibling_window_original(context_node_id) ==
    EdgeSiblings(context_node_id, "following")

xpath_preceding_sibling_window_original(context_node_id) ==
    EdgeSiblings(context_node_id, "preceding")

xpath_following_sibling_window(context_node_id) ==
    IF HasAccel
    THEN IF ~(\E a \in accel : a.id = context_node_id) THEN Ok(<<>>)
         ELSE LET row == RowById(accel, context_node_id)
              IN IF row.parent = None THEN Ok(<<>>)
                 ELSE Ok(AccelRows(AccelFollowingScan(row.parent, row.pre_order, row.type),
                                   ByPre))
    ELSE xpath_following_sibling_window_original(context_node_id)

xpath_preceding_sibling_window(context_node_id) ==
    IF HasAccel
    THEN IF ~(\E a \in accel : a.id = context_node_id) THEN Ok(<<>>)
         ELSE LET row == RowById(accel, context_node_id)
              IN IF row.parent = None THEN Ok(<<>>)
                 ELSE Ok(AccelRows(AccelPrecedingScan(row.parent, row.pre_order, row.type),
                                   ByPre))
    ELSE xpath_preceding_sibling_window_original(context_node_id)

\* ------------------------------------------------------------------------
\* Bounded evaluator (window_optimization.py: xpath_descendant_optimized)
\* ------------------------------------------------------------------------
\* mutant: the depth limit is one level too small
OptDescendantScanShallower(row) ==
    IF row.subtree_size > SubtreeThreshold
    THEN {a \in opt_accel : /\ a.pre_order > row.pre_order
                            /\ a.post_order < row.post_order
                            /\ a.level <= row.level + DepthLimit - 1}
    ELSE {a \in opt_accel : /\ a.pre_order > row.pre_order
                            /\ a.post_order < row.post_order}

\* mutant: the post_order bound is missing from the constrained scan
OptDescendantScanNoPost(row) ==
    IF row.subtree_size > SubtreeThreshold
    THEN {a \in opt_accel : /\ a.pre_order > row.pre_order
                            /\ a.level <= row.level + DepthLimit}
    ELSE {a \in opt_accel : a.pre_order > row.pre_order}

\* the scan of xpath_descendant_optimized for the context row (lines 152-175)
OptDescendantScan(row) ==
    IF row.subtree_size > SubtreeThreshold
    THEN {a \in opt_accel : /\ a.pre_order > row.pre_order
                            /\ a.post_order < row.post_order
                            /\ a.level <= row.level + DepthLimit}
    ELSE {a \in opt_accel : /\ a.pre_order > row.pre_order
                            /\ a.post_order < row.post_order}

xpath_descendant_optimized(context_node_id) ==
    IF "optimized_accel" \notin tables THEN Raised
    ELSE IF ~(\E a \in opt_accel : a.id = context_node_id) THEN Ok(<<>>)
    ELSE LET row == RowById(opt_accel, context_node_id)
         IN IF row.subtree_size <= 1 THEN Ok(<<>>)
            ELSE Ok(OptRows(OptDescendantScan(row), ByPre))

\* ancestors of all author rows with the given text, on optimized_accel
\* (lines 204-220)
OptAuthorAncestors(text) ==
    ParentClosure(opt_accel,
        {a.parent : a \in {r \in opt_accel : /\ r.type = "author"
                                             /\ TextOf(opt_content, r.id) = text
                                             /\ r.parent # None}})

\* max(0, x)
Max0(x) == IF x > 0 THEN x ELSE 0

\* mutant: the level constraint admits the level of the parent only
OptAncestorScanParentLevel(row) ==
    {a \in opt_accel : /\ a.pre_order < row.pre_order
                        /\ a.post_order > row.post_order
                        /\ a.level >= Max0(row.level - 1)}

\* the ancestor scan with the level constraint (lines 222-234):
\* max_level_diff is the level of the context node
OptAncestorScan(row) ==
    {a \in opt_accel : /\ a.pre_order < row.pre_order
                        /\ a.post_order > row.post_order
                        /\ a.level >= Max0(row.level - row.level)}

xpath_ancestor_optimized(context_node_id) ==
    IF "optimized_accel" \notin tables \/ "optimized_content" \notin tables THEN Raised
    ELSE IF ~(\E a \in opt_accel : a.id = context_node_id) THEN Ok(<<>>)
    ELSE IF /\ RowById(opt_accel, context_node_id).type = "author"
            /\ Truthy(TextOf(opt_content, context_node_id))
    THEN Ok(OptRows({a \in opt_accel :
                        a.id \in OptAuthorAncestors(TextOf(opt_content, context_node_id))},
                    ById))
    ELSE Ok(OptRows(OptAncestorScan(RowById(opt_accel, context_node_id)), ByPre))

\* the sibling scan of the bounded evaluator (lines 260-281): rows under
\* the same parent, at the level and of the type of the context node
OptSiblingScan(row, direction) ==
    IF direction = "following"
    THEN {a \in opt_accel : /\ a.parent = row.parent
                            /\ a.pre_order > row.pre_order
                            /\ a.level = row.level
                            /\ a.type = row.type}
    ELSE {a \in opt_accel : /\ a.parent = row.parent
                            /\ a.pre_order < row.pre_order
                            /\ a.level = row.level
                            /\ a.type = row.type}

xpath_sibling_optimized(context_node_id, direction) ==
    IF "optimized_accel" \notin tables THEN Raised
    ELSE IF ~(\E a \in opt_accel : a.id = context_node_id) THEN Ok(<<>>)
    ELSE IF RowById(opt_accel, context_node_id).parent = None THEN Ok(<<>>)
    ELSE Ok(OptRows(OptSiblingScan(RowById(opt_accel, context_node_id), direction),
                    ByPre))

\* ------------------------------------------------------------------------
\* Query calls. A caller takes the context id from the store, looking a
\* node up by its label (SELECT id FROM ... WHERE s_id = %s), or passes an
\* id no row has.
\* ------------------------------------------------------------------------
AbsentId == 0

ProbeIds ==
    {r.id : r \in {x \in accel : x.s_id <= MaxProbe}}
    \cup {r.id : r \in {x \in NodeT : x.s_id <= MaxProbe}}
    \cup {r.id : r \in {x \in opt_accel : x.s_id <= MaxProbe}}
    \cup {AbsentId}

\* the texts a caller passes to ancestor_nodes: the content of a node of
\* the tree, or a text no node has
AbsentText == "absent"
ProbeTexts == {kind[v].content : v \in Nodes} \cup {AbsentText}

Query(op, id, direction, res) ==
    /\ Idle
    /\ call' = CalledDir(op, id, direction, res.status, res.rows)
    /\ UNCHANGED <<sessions, treeVars, nodeVars, encVars, stdVars, optVars>>

call_descendant_nodes ==
    \E id \in ProbeIds : Query("descendant_nodes", id, "", descendant_nodes(id))

call_ancestor_nodes ==
    \E text \in ProbeTexts : Query("ancestor_nodes", text, "", ancestor_nodes(text))

call_siblings ==
    \E id \in ProbeIds : \E d \in {"following", "preceding"} :
        Query("siblings", id, d, siblings(id, d))

call_xpath_ancestor_window ==
    \E id \in ProbeIds :
        Query("xpath_ancestor_window", id, "", xpath_ancestor_window(id))

call_xpath_descendant_window ==
    \E id \in ProbeIds :
        Query("xpath_descendant_window", id, "", xpath_descendant_window(id))

call_xpath_following_sibling_window ==
    \E id \in ProbeIds :
        Query("xpath_following_sibling_window", id, "following",
              xpath_following_sibling_window(id))

call_xpath_preceding_sibling_window ==
    \E id \in ProbeIds :
        Query("xpath_preceding_sibling_window", id, "preceding",
              xpath_preceding_sibling_window(id))

call_xpath_descendant_optimized ==
    \E id \in ProbeIds :
        Query("xpath_descendant_optimized", id, "", xpath_descendant_optimized(id))

call_xpath_ancestor_optimized ==
    \E id \in ProbeIds :
        Query("xpath_ancestor_optimized", id, "", xpath_ancestor_optimized(id))

call_xpath_sibling_optimized ==
    \E id \in ProbeIds : \E d \in {"following", "preceding"} :
        Query("xpath_sibling_optimized", id, d, xpath_sibling_optimized(id, d))

\* ------------------------------------------------------------------------
\* Axis calls taken one store call at a time. Each caller connects for
\* itself (conn = connect_db(); cur = conn.cursor()) and hands its cursor
\* to the function; cur.execute leaves the rows of the statement with the
\* cursor, cur.fetchone and cur.fetchall take them from it.
\* ------------------------------------------------------------------------
Readers == {"r1", "r2"}

\* mutant: every call works on the cursor of the first reader
CursorShared(r) == "r1"

\* the cursor the call of reader r works on
CursorOf(r) == r

NoRow == [type |-> Null, text |-> Null, pre_order |-> None, post_order |-> None]
IdleFrame == [op |-> "", arg |-> AbsentId, pc |-> "idle", has_accel |-> FALSE,
              ctx |-> NoRow, found |-> FALSE, status |-> "", result |-> <<>>]
NoBuffer == [stmt |-> "", rows |-> <<>>]
NoSessions == [frame |-> [r \in Readers |-> IdleFrame],
               cursor |-> [c \in Readers |-> NoBuffer]]

ReaderOps == {"xpath_ancestor_window", "xpath_descendant_window"}

\* no axis call is under way
Quiet == \A r \in Readers : sessions.frame[r].pc = "idle"

\* cur.execute of reader r: the rows of the statement are left with the
\* cursor; the call waits at pc for the fetch
Execute(r, f, stmt, rows) ==
    sessions' = [sessions EXCEPT !.frame[r] = [f EXCEPT !.pc = stmt],
                                 !.cursor[CursorOf(r)] = [stmt |-> stmt, rows |-> rows]]

\* the call of reader r returns rows, or raises
Finish(r, status, rows) ==
    sessions' = [sessions EXCEPT !.frame[r].pc = "done",
                                 !.frame[r].status = status,
                                 !.frame[r].result = rows,
                                 !.cursor[CursorOf(r)] = NoBuffer]

\* the fetch of reader r took the rows; the call goes on at pc with frame f
Fetched(r, f, pc) ==
    sessions' = [sessions EXCEPT !.frame[r] = [f EXCEPT !.pc = pc],
                                 !.cursor[CursorOf(r)] = NoBuffer]

\* the context row of an accel id as the window functions select it
\* (axes.py lines 367-373, 440-444)
AccelContext(id) ==
    OrderBy({<<a.id, a.id, [type |-> a.type, text |-> TextOf(contentT, a.id),
                            pre_order |-> a.pre_order, post_order |-> a.post_order]>> :
             a \in {x \in accel : x.id = id}})

\* SELECT type, content FROM Node WHERE id = %s (line 220)
NodeContext(id) ==
    OrderBy({<<n.id, n.id, [type |-> n.type, text |-> n.content,
                            pre_order |-> None, post_order |-> None]>> :
             n \in {x \in NodeT : x.id = id}})

\* the second statement of xpath_ancestor_window on accel (lines 382-411)
AccelAncestorStatement(ctx) ==
    IF ctx.type = "author" /\ Truthy(ctx.text)
    THEN AccelRows({a \in accel : a.id \in AccelAuthorAncestors(ctx.text)}, ById)
    ELSE AccelRows(AccelAncestorScan(ctx.pre_order, ctx.post_order), ByPre)

\* the second statement of xpath_ancestor_window_original (lines 223-248)
EdgeAncestorStatement(found, ctx, id) ==
    IF found /\ ctx.type = "author" /\ Truthy(ctx.text)
    THEN NodeRows({n \in NodeT : n.id \in EdgeUpClosure(
             {e.from_node : e \in {x \in EdgeT : \E m \in NodeT :
                  /\ m.id = x.to_node /\ m.type = "author"
                  /\ m.content = ctx.text}})}, ById)
    ELSE NodeRows({n \in NodeT : n.id \in EdgeUpClosure(
             {e.from_node : e \in {x \in EdgeT : x.to_node = id}})}, ById)

\* a caller calls an axis function: its first statement asks
\* information_schema for the accel table (lines 362-364, 432-434)
ReaderCall(r) ==
    /\ sessions.frame[r].pc = "idle"
    /\ \E op \in ReaderOps : \E id \in ProbeIds :
          Execute(r, [IdleFrame EXCEPT !.op = op, !.arg = id], "detect", <<HasAccel>>)

\* cur.fetchone / cur.fetchall of reader r. Rows of another statement
\* than the one the call executed do not unpack: the call raises.
ReaderFetch(r) ==
    LET f == sessions.frame[r]
        buf == sessions.cursor[CursorOf(r)]
    IN /\ f.pc \in {"detect", "context", "scan"}
       /\ IF buf.stmt # f.pc \/ (f.pc = "detect" /\ buf.rows = <<>>)
          THEN Finish(r, "error", <<>>)
          ELSE IF f.pc = "detect"
          THEN Fetched(r, [f EXCEPT !.has_accel = buf.rows[1]], "detected")
          ELSE IF f.pc = "scan" THEN Finish(r, "ok", buf.rows)
          ELSE IF buf.rows = <<>>
          THEN IF f.has_accel THEN Finish(r, "ok", <<>>)
               ELSE Fetched(r, f, "fetched")
          ELSE Fetched(r, [f EXCEPT !.ctx = buf.rows[1], !.found = TRUE], "fetched")

\* the next cur.execute of reader r
ReaderExecute(r) ==
    LET f == sessions.frame[r]
    IN /\ f.pc \in {"detected", "fetched"}
       /\ IF f.has_accel
          THEN IF ~HasAccel THEN Finish(r, "error", <<>>)
               ELSE IF f.pc = "detected"
               THEN Execute(r, f, "context", AccelContext(f.arg))
               ELSE IF f.op = "xpath_ancestor_window"
               THEN Execute(r, f, "scan", AccelAncestorStatement(f.ctx))
               ELSE Execute(r, f, "scan",
                            AccelRows(AccelDescendantScan(f.ctx.pre_order,
                                                          f.ctx.post_order), ByPre))
          ELSE IF ~HasNode THEN Finish(r, "error", <<>>)
               ELSE IF f.op = "xpath_descendant_window"
               THEN Execute(r, f, "scan", xpath_descendant_window_original(f.arg).rows)
               ELSE IF f.pc = "detected"
               THEN Execute(r, f, "context", NodeContext(f.arg))
               ELSE Execute(r, f, "scan", EdgeAncestorStatement(f.found, f.ctx, f.arg))

\* the caller takes the result
ReaderReturn(r) ==
    /\ sessions.frame[r].pc = "done"
    /\ sessions' = [sessions EXCEPT !.frame[r] = IdleFrame]

\* a step of one of the calls under way
reader_call == \E r \in Readers : ReaderCall(r) /\ UNCHANGED <<treeVars, nodeVars, encVars, stdVars, optVars, call>>
reader_fetch == \E r \in Readers : ReaderFetch(r) /\ UNCHANGED <<treeVars, nodeVars, encVars, stdVars, optVars, call>>
reader_execute == \E r \in Readers : ReaderExecute(r) /\ UNCHANGED <<treeVars, nodeVars, encVars, stdVars, optVars, call>>
reader_return == \E r \in Readers : ReaderReturn(r) /\ UNCHANGED <<treeVars, nodeVars, encVars, stdVars, optVars, call>>

\* ------------------------------------------------------------------------
\* Initial states
\* ------------------------------------------------------------------------
NoneOn(S) == [v \in S |-> None]

Plain == [type |-> "title", content |-> Null]

InitRest ==
    /\ pre_order = NoneOn(Nodes)
    /\ post_order = NoneOn(Nodes)
    /\ db_id = NoneOn(Nodes)
    /\ level = NoneOn(Nodes)
    /\ subtree_size = NoneOn(Nodes)
    /\ pre_counter = CounterStart
    /\ post_counter = CounterStart
    /\ stack = <<>>
    /\ tables = {}
    /\ accel = {}
    /\ contentT = {}
    /\ NodeT = {}
    /\ EdgeT = {}
    /\ node_seq = 1
    /\ opt_accel = {}
    /\ opt_content = {}
    /\ call = Called("Node", Root, "ok", <<>>)
    /\ sessions = NoSessions

\* every tree shape of up to MaxShape nodes
InitEncode ==
    /\ \E n \in 1..MaxShape : \E par \in Shapes(n) :
          /\ children = ChildrenOf(n, par)
          /\ kind = [v \in 1..n |-> Plain]
    /\ InitRest

NextEncode == AnnotateCall \/ AnnotateDescend \/ AnnotateReturn

SpecEncode == InitEncode /\ [][NextEncode]_vars

\* the interpreter goes on with a traversal that can take a step
SpecEncodeFair == SpecEncode /\ WF_vars(NextEncode)

\* the node kinds of the typed trees
Article == [type |-> "article", content |-> Null]
Author == [type |-> "author", content |-> "x"]
Title == [type |-> "title", content |-> "t"]
Kinds == {Article, Author, Title}

\* the document element
Bib == [type |-> "bib", content |-> Null]

\* a node is created and added to a node of the tree
add_child ==
    /\ Idle
    /\ N < MaxGrow
    /\ \E p \in Nodes : \E k \in {Article, Author} : AddChild(p, k)
    /\ UNCHANGED <<sessions, encVars, stdVars, optVars>>

\* every tree of up to MaxNodes nodes: a bib root, below it nodes of any kind
InitTyped ==
    \E n \in 1..MaxNodes : \E par \in Shapes(n) : \E k \in [2..n -> Kinds] :
        /\ children = ChildrenOf(n, par)
        /\ kind = [v \in 1..n |-> IF v = Root THEN Bib ELSE k[v]]

\* the axis functions over the edge layout and the ordered layout
Init == InitTyped /\ InitRest

Next ==
    \/ annotate_traversal_orders
    \/ setup_schema(TRUE)
    \/ setup_schema(FALSE)
    \/ insert_to_db
    \/ insert_to_original_db
    \/ call_descendant_nodes
    \/ call_siblings
    \/ call_xpath_ancestor_window
    \/ call_xpath_descendant_window
    \/ call_xpath_following_sibling_window
    \/ call_xpath_preceding_sibling_window

Spec == Init /\ [][Next]_vars

\* an author whose text is white space only
Blank == [type |-> "author", content |-> " "]
AuthorKinds == {Article, Author, Blank}

\* every tree of up to MaxNodes nodes: a bib root, below it articles and
\* authors with and without visible text
InitAuthors ==
    \E n \in 1..MaxNodes : \E par \in Shapes(n) : \E k \in [2..n -> AuthorKinds] :
        /\ children = ChildrenOf(n, par)
        /\ kind = [v \in 1..n |-> IF v = Root THEN Bib ELSE k[v]]

\* the two strategies of the ancestor axis over both layouts
NextAncestor ==
    \/ annotate_traversal_orders
    \/ setup_schema(TRUE)
    \/ setup_schema(FALSE)
    \/ insert_to_db
    \/ insert_to_original_db
    \/ call_ancestor_nodes
    \/ call_xpath_ancestor_window

InitAncestor == InitAuthors /\ InitRest

SpecAncestor == InitAncestor /\ [][NextAncestor]_vars

\* one tree stored in the ordered layout and, next to it, in the edge
\* layout, and the range-strategy functions over it
NextLayouts ==
    \/ annotate_traversal_orders
    \/ setup_schema(FALSE)
    \/ insert_to_db
    \/ xpath_paul_setup_schema
    \/ insert_to_original_db
    \/ call_xpath_ancestor_window
    \/ call_xpath_descendant_window
    \/ call_xpath_following_sibling_window
    \/ call_xpath_preceding_sibling_window

SpecLayouts == Init /\ [][NextLayouts]_vars

\* number of nodes of the trees with several article siblings
MaxFamily == 4

\* every tree of up to MaxFamily nodes: a bib root, below it articles and
\* titles
InitFamily ==
    \E n \in 1..MaxFamily : \E par \in Shapes(n) : \E k \in [2..n -> {Article, Title}] :
        /\ children = ChildrenOf(n, par)
        /\ kind = [v \in 1..n |-> IF v = Root THEN Bib ELSE k[v]]

\* the two strategies of the sibling axes over the ordered layout
NextFamily ==
    \/ annotate_traversal_orders
    \/ setup_schema(FALSE)
    \/ insert_to_db
    \/ call_siblings
    \/ call_xpath_following_sibling_window
    \/ call_xpath_preceding_sibling_window

InitSiblings == InitFamily /\ InitRest

SpecFamily == InitSiblings /\ [][NextFamily]_vars

\* a tree that grows from its root, encoded and stored at any time
InitBuild ==
    /\ children = <<<<>>>>
    /\ kind = <<Bib>>
    /\ InitRest

NextBuild ==
    \/ add_child
    \/ annotate_traversal_orders
    \/ calculate_post_order
    \/ setup_schema(TRUE)
    \/ setup_schema(FALSE)
    \/ insert_to_db
    \/ insert_to_original_db

SpecBuild == InitBuild /\ [][NextBuild]_vars

\* axis calls running side by side on a tree that is encoded and stored
\* before they start
NextReaders ==
    \/ Quiet /\ annotate_traversal_orders
    \/ Quiet /\ setup_schema(TRUE)
    \/ Quiet /\ setup_schema(FALSE)
    \/ Quiet /\ insert_to_db
    \/ Quiet /\ insert_to_original_db
    \/ reader_call
    \/ reader_fetch
    \/ reader_execute
    \/ reader_return

\* number of nodes of the trees the concurrent calls read
MaxReadNodes == 2

\* every tree of up to MaxReadNodes nodes: a bib root, below it nodes of
\* any kind
InitReaders ==
    /\ \E n \in 1..MaxReadNodes : \E par \in Shapes(n) : \E k \in [2..n -> Kinds] :
          /\ children = ChildrenOf(n, par)
          /\ kind = [v \in 1..n |-> IF v = Root THEN Bib ELSE k[v]]
    /\ InitRest

SpecReaders == InitReaders /\ [][NextReaders]_vars

\* the schema set up, cleared and loaded in any order
NextSchema ==
    \/ annotate_traversal_orders
    \/ setup_schema(TRUE)
    \/ setup_schema(FALSE)
    \/ xpath_paul_setup_schema
    \/ clear_db
    \/ insert_to_db
    \/ insert_to_original_db

SpecSchema == Init /\ [][NextSchema]_vars

\* the ancestor functions of the bounded evaluator and of the ordered layout
NextOptAncestor ==
    \/ annotate_traversal_orders
    \/ setup_optimized_schema
    \/ insert_optimized_data
    \/ setup_schema(FALSE)
    \/ insert_to_db
    \/ call_xpath_ancestor_window
    \/ call_xpath_ancestor_optimized

SpecOptAncestor == InitAncestor /\ [][NextOptAncestor]_vars

\* a large tree: a root, under it (when top = 1) the hub and a last leaf,
\* under the hub a chain of depth nodes and BigFan leaves
BigSize(top, depth) == top + 1 + depth + BigFan + top
BigParent(top, depth) ==
    LET hub == top + 1
        n == BigSize(top, depth)
    IN [j \in 2..n |->
          IF j = hub THEN 1
          ELSE IF top = 1 /\ j = n THEN 1
          ELSE IF j = hub + 1 THEN hub
          ELSE IF j <= hub + depth THEN j - 1
          ELSE hub]
BigKind(top, depth) ==
    [v \in 1..BigSize(top, depth) |-> IF v <= top + 1 + depth THEN Article ELSE Title]

\* one large tree as deep as the depth limit, one deeper
InitBig ==
    \E top \in {0, 1} :
        /\ children = ChildrenOf(BigSize(top, DepthLimit + top),
                                 BigParent(top, DepthLimit + top))
        /\ kind = BigKind(top, DepthLimit + top)

\* the bounded evaluator next to the ordered layout
InitOpt == (InitTyped \/ InitBig) /\ InitRest

NextOpt ==
    \/ annotate_traversal_orders
    \/ setup_optimized_schema
    \/ insert_optimized_data
    \/ setup_schema(FALSE)
    \/ insert_to_db
    \/ call_xpath_descendant_window
    \/ call_xpath_descendant_optimized

SpecOpt == InitOpt /\ [][NextOpt]_vars

\* the sibling functions of the bounded evaluator and of the ordered layout
NextOptSiblings ==
    \/ annotate_traversal_orders
    \/ setup_optimized_schema
    \/ insert_optimized_data
    \/ setup_schema(FALSE)
    \/ insert_to_db
    \/ call_xpath_following_sibling_window
    \/ call_xpath_preceding_sibling_window
    \/ call_xpath_sibling_optimized

SpecOptSiblings == Init /\ [][NextOptSiblings]_vars

\* ------------------------------------------------------------------------
\* Claims on the encoder
\* ------------------------------------------------------------------------
Encoded == call.op = "annotate_traversal_orders" /\ call.status = "ok"

IsPermutation(f) ==
    /\ {f[v] : v \in Nodes} = 1..N
    /\ \A u, v \in Nodes : f[u] = f[v] => u = v

\* C1: after annotate_traversal_orders on a tree of N nodes the pre_order
\* values are exactly 1..N without repetition, and so are the post_order
\* values; a single node gets pre_order = 1 and post_order = 1.
C1_OrdersArePermutations ==
    Encoded => /\ IsPermutation(pre_order)
               /\ IsPermutation(post_order)
               /\ (N = 1 => pre_order[Root] = 1 /\ post_order[Root] = 1)

C1_Witness ==
    /\ Encoded
    /\ N = MaxShape
    /\ \E v \in Nodes : Len(children[v]) >= 2
    /\ \E v \in Nodes : pre_order[v] # post_order[v]

\* C2: in an encoded tree a is a proper ancestor of v exactly when
\* pre_order(a) < pre_order(v) and post_order(a) > post_order(v).
C2_AncestorIffOrders ==
    Encoded => \A a, v \in Nodes :
        IsAncestor(a, v) <=>
            (pre_order[a] < pre_order[v] /\ post_order[a] > post_order[v])

C2_Witness ==
    /\ Encoded
    /\ \E a, v, w \in Nodes :
          /\ IsAncestor(a, v) /\ ParentOf(v) # a
          /\ ~IsAncestor(a, w) /\ ~IsAncestor(w, a) /\ a # w

\* the interval spanned by the (pre_order, post_order) pair of a node
Span(v) ==
    IF pre_order[v] <= post_order[v]
    THEN pre_order[v]..post_order[v]
    ELSE post_order[v]..pre_order[v]

\* both numberings order a and v the same way
SameOrder(a, v) ==
    \/ pre_order[a] < pre_order[v] /\ post_order[a] < post_order[v]
    \/ pre_order[a] > pre_order[v] /\ post_order[a] > post_order[v]

ExactlyOne(A, B, C) ==
    \/ A /\ ~B /\ ~C
    \/ ~A /\ B /\ ~C
    \/ ~A /\ ~B /\ C

\* C3 as stated: for distinct a, v exactly one of: a is an ancestor of v,
\* v is an ancestor of a, the intervals spanned by their (pre, post) pairs
\* are disjoint.
C3_AsStated ==
    Encoded => \A a, v \in Nodes : a # v =>
        ExactlyOne(IsAncestor(a, v), IsAncestor(v, a),
                   Span(a) \cap Span(v) = {})

\* C3 amended: for distinct a, v exactly one of: a is an ancestor of v,
\* v is an ancestor of a, or a lies before (after) v in both numberings;
\* a pair is never ordered one way by pre_order and tied by post_order.
C3_NestedOrSameOrder ==
    Encoded => \A a, v \in Nodes : a # v =>
        /\ ExactlyOne(IsAncestor(a, v), IsAncestor(v, a), SameOrder(a, v))
        /\ pre_order[a] # pre_order[v]
        /\ post_order[a] # post_order[v]

C3_Witness ==
    /\ Encoded
    /\ \E a, v \in Nodes :
          /\ a # v /\ ~IsAncestor(a, v) /\ ~IsAncestor(v, a)
          /\ SameOrder(a, v)
          /\ Span(a) \cap Span(v) # {}
    /\ \E a, v \in Nodes : IsAncestor(a, v)

\* ------------------------------------------------------------------------
\* Claims on the axis functions over the ordered layout
\* ------------------------------------------------------------------------
\* a query returned, and its context id is the id of a row of accel
AccelQuery(op) ==
    /\ call.op = op
    /\ call.status = "ok"
    /\ HasAccel
    /\ call.arg \in Ids(accel)

\* the tree node stored under an accel id, and the accel ids of tree nodes
AccelNode(id) == RowById(accel, id).s_id
AccelIds(S) == {a.id : a \in {r \in accel : r.s_id \in S}}

\* C4: in the ordered layout, for every stored node, descendant_nodes and
\* xpath_descendant_window return the same set of node ids.
C4_DescendantStrategiesAgree ==
    /\ AccelQuery("xpath_descendant_window") =>
          IdSet(call.result) = IdSet(descendant_nodes(call.arg).rows)
    /\ AccelQuery("descendant_nodes") =>
          IdSet(call.result) = IdSet(xpath_descendant_window(call.arg).rows)

C4_Witness ==
    /\ AccelQuery("xpath_descendant_window")
    /\ Len(call.result) >= 2
    /\ \E i \in DOMAIN call.result :
          RowById(accel, call.result[i][1]).parent # call.arg
    /\ IdSet(call.result) = AccelIds(DescendantsOf(AccelNode(call.arg)))

\* C5 as stated: in the ordered layout, for every stored node of any type
\* and each direction, siblings(v, direction) and the sibling window
\* function of that direction return the same set of node ids.
C5_SiblingStrategiesAgree ==
    /\ AccelQuery("xpath_following_sibling_window") =>
          IdSet(call.result) = IdSet(siblings(call.arg, "following").rows)
    /\ AccelQuery("xpath_preceding_sibling_window") =>
          IdSet(call.result) = IdSet(siblings(call.arg, "preceding").rows)
    /\ (AccelQuery("siblings") /\ call.direction = "following") =>
          IdSet(call.result) = IdSet(xpath_following_sibling_window(call.arg).rows)
    /\ (AccelQuery("siblings") /\ call.direction = "preceding") =>
          IdSet(call.result) = IdSet(xpath_preceding_sibling_window(call.arg).rows)

\* the accel ids of the nodes above v by the order numbers of the tree
OrderAncestorIds(v) ==
    AccelIds({u \in Nodes : /\ pre_order[u] < pre_order[v]
                            /\ post_order[u] > post_order[v]})

\* the context row is an author with text: the special case of
\* xpath_ancestor_window
AuthorWithText(id) ==
    /\ RowById(accel, id).type = "author"
    /\ Truthy(TextOf(contentT, id))

SiblingIds(v, direction) ==
    AccelIds({u \in Nodes : /\ ParentOf(u) = ParentOf(v)
                            /\ IF direction = "following"
                               THEN pre_order[u] > pre_order[v]
                               ELSE pre_order[u] < pre_order[v]})
ArticleIds == {a.id : a \in {r \in accel : r.type = "article"}}
HasParent(id) == ParentOf(AccelNode(id)) # None

SiblingIdsFor(id, direction) ==
    IF RowById(accel, id).type = "article"
    THEN SiblingIds(AccelNode(id), direction) \cap ArticleIds
    ELSE SiblingIds(AccelNode(id), direction)

OptQuery(op) ==
    /\ call.op = op
    /\ call.status = "ok"
    /\ "optimized_accel" \in tables
    /\ call.arg \in Ids(opt_accel)

\* the same tree is loaded into accel and into optimized_accel
BothLoaded ==
    /\ HasAccel
    /\ "optimized_accel" \in tables
    /\ Cardinality(accel) = N
    /\ Cardinality(opt_accel) = N
    /\ \A a \in accel : \E o \in opt_accel :
          /\ o.id = a.id /\ o.s_id = a.s_id
          /\ o.pre_order = a.pre_order /\ o.post_order = a.post_order

OptNode(id) == RowById(opt_accel, id).s_id
OptIds(S) == {a.id : a \in {r \in opt_accel : r.s_id \in S}}

\* C8: for a tree no deeper than the depth limit, loaded into both stores,
\* xpath_descendant_optimized(v) and xpath_descendant_window(v) return the
\* same set of ids for every node v.
C8_OptimizedEqualsWindow ==
    (BothLoaded /\ Height(Root) <= DepthLimit) =>
        /\ OptQuery("xpath_descendant_optimized") =>
              IdSet(call.result) = IdSet(xpath_descendant_window(call.arg).rows)
        /\ AccelQuery("xpath_descendant_window") =>
              IdSet(call.result) = IdSet(xpath_descendant_optimized(call.arg).rows)

C8_Witness ==
    /\ BothLoaded
    /\ Height(Root) = DepthLimit
    /\ OptQuery("xpath_descendant_optimized")
    /\ RowById(opt_accel, call.arg).subtree_size > SubtreeThreshold
    /\ \E o \in opt_accel :
          /\ o.level = RowById(opt_accel, call.arg).level + DepthLimit
          /\ o.id \in IdSet(call.result)

\* the depth cap left out a true descendant of the context node
Truncated ==
    /\ OptQuery("xpath_descendant_optimized")
    /\ RowById(opt_accel, call.arg).subtree_size > SubtreeThreshold
    /\ ~(OptIds(DescendantsOf(OptNode(call.arg))) \subseteq IdSet(call.result))

\* C9 as stated: whenever the depth cap of xpath_descendant_optimized
\* leaves out a true descendant, the returned value carries a visible
\* IncompleteResult flag.
C9_TruncationIsFlagged ==
    Truncated => call.status = "IncompleteResult"

\* C10: every id xpath_descendant_optimized(v) returns is the id of a true
\* descendant of v, whatever the depth of the tree.
C10_OptimizedSubset ==
    OptQuery("xpath_descendant_optimized") =>
        IdSet(call.result) \subseteq OptIds(DescendantsOf(OptNode(call.arg)))

C10_Witness ==
    /\ Truncated
    /\ Len(call.result) >= DepthLimit
    /\ \E o \in opt_accel :
          /\ o.id # call.arg
          /\ OptNode(o.id) \notin DescendantsOf(OptNode(call.arg))

\* ------------------------------------------------------------------------
\* Claims on the author case of the ancestor axis
\* ------------------------------------------------------------------------
\* the node a context id denotes, its text in the tree, and the ids of a
\* set of nodes, in whichever layout is set up
StoredIds == IF HasAccel THEN Ids(accel) ELSE Ids(NodeT)
StoredNode(id) ==
    IF HasAccel THEN RowById(accel, id).s_id ELSE RowById(NodeT, id).s_id
StoredIdsOf(S) ==
    IF HasAccel THEN AccelIds(S) ELSE {n.id : n \in {r \in NodeT : r.s_id \in S}}

\* a query returned in one of the two layouts on a stored context id
StoredQuery(op) ==
    /\ call.op = op
    /\ call.status = "ok"
    /\ HasAccel \/ HasNode
    /\ call.arg \in StoredIds

\* the ancestors, in the tree, of every author node whose content is text
AuthorAncestors(text) ==
    UNION {AncestorsOf(u) : u \in {w \in Nodes : /\ kind[w].type = "author"
                                                  /\ kind[w].content = text}}

\* the context of the call is an author node whose content is not empty
AuthorContext(id) ==
    /\ kind[StoredNode(id)].type = "author"
    /\ Truthy(kind[StoredNode(id)].content)

\* the content of a text has characters other than white space
Visible(text) == text # Null /\ HasText(text)

\* C11 as stated: for an author node v with non-empty content c, in the
\* ordered layout and in the edge layout, xpath_ancestor_window(v) returns
\* the id set of ancestor_nodes(c), the ancestors of all authors with
\* content c.
C11_AsStated ==
    (StoredQuery("xpath_ancestor_window") /\ AuthorContext(call.arg)) =>
        /\ IdSet(call.result) =
              IdSet(ancestor_nodes(kind[StoredNode(call.arg)].content).rows)
        /\ IdSet(call.result) =
              StoredIdsOf(AuthorAncestors(kind[StoredNode(call.arg)].content))

\* C11 amended: the same for an author node whose content has characters
\* other than white space.
C11_AuthorAncestorsAgree ==
    /\ (/\ StoredQuery("xpath_ancestor_window")
        /\ AuthorContext(call.arg)
        /\ Visible(kind[StoredNode(call.arg)].content)) =>
          /\ IdSet(call.result) =
                IdSet(ancestor_nodes(kind[StoredNode(call.arg)].content).rows)
          /\ IdSet(call.result) =
                StoredIdsOf(AuthorAncestors(kind[StoredNode(call.arg)].content))
    /\ (/\ call.op = "ancestor_nodes"
        /\ call.status = "ok"
        /\ Visible(call.arg)) =>
          \A id \in StoredIds :
              (kind[StoredNode(id)].type = "author"
                 /\ kind[StoredNode(id)].content = call.arg) =>
                  IdSet(xpath_ancestor_window(id).rows) = IdSet(call.result)

C11_Witness ==
    /\ StoredQuery("xpath_ancestor_window")
    /\ AuthorContext(call.arg)
    /\ Visible(kind[StoredNode(call.arg)].content)
    /\ StoredIdsOf(AncestorsOf(StoredNode(call.arg))) # IdSet(call.result)
    /\ Len(call.result) >= 2

\* ------------------------------------------------------------------------
\* Claims on the range-strategy functions across the two layouts
\* ------------------------------------------------------------------------
\* the tree is stored once in accel and once in Node/Edge
StoredInBoth ==
    /\ HasAccel
    /\ HasNode
    /\ {a.s_id : a \in accel} = Nodes
    /\ {n.s_id : n \in NodeT} = Nodes
    /\ Cardinality(accel) = N
    /\ Cardinality(NodeT) = N

WindowOps == {"xpath_ancestor_window", "xpath_descendant_window",
              "xpath_following_sibling_window", "xpath_preceding_sibling_window"}

\* what the function op returns in the edge layout on the Node id of tree
\* node v
EdgeLayoutResult(op, v) ==
    CASE op = "xpath_ancestor_window" ->
           xpath_ancestor_window_original((CHOOSE n \in NodeT : n.s_id = v).id)
      [] op = "xpath_descendant_window" ->
           xpath_descendant_window_original((CHOOSE n \in NodeT : n.s_id = v).id)
      [] op = "xpath_following_sibling_window" ->
           xpath_following_sibling_window_original((CHOOSE n \in NodeT : n.s_id = v).id)
      [] op = "xpath_preceding_sibling_window" ->
           xpath_preceding_sibling_window_original((CHOOSE n \in NodeT : n.s_id = v).id)

\* the tree nodes that the rows of a result denote
AccelNodesOf(rows) == {AccelNode(id) : id \in IdSet(rows)}
EdgeNodesOf(rows) == {RowById(NodeT, id).s_id : id \in IdSet(rows)}

\* C12: with the same tree stored in the edge layout and in the ordered
\* layout, each of the four window functions returns, for every context
\* node of any type, results that denote the same tree nodes in both.
C12_LayoutsAgree ==
    (StoredInBoth /\ call.op \in WindowOps /\ AccelQuery(call.op)) =>
        /\ EdgeLayoutResult(call.op, AccelNode(call.arg)).status = "ok"
        /\ AccelNodesOf(call.result) =
              EdgeNodesOf(EdgeLayoutResult(call.op, AccelNode(call.arg)).rows)

\* ------------------------------------------------------------------------
\* Claims on the order of the sibling results
\* ------------------------------------------------------------------------
\* the ids of the rows of a result, in the order of the result
IdSeq(rows) == [i \in DOMAIN rows |-> rows[i][1]]

\* the sibling window function of a direction
SiblingWindow(id, direction) ==
    IF direction = "following" THEN xpath_following_sibling_window(id)
    ELSE xpath_preceding_sibling_window(id)

\* C13: in the ordered layout, for every article node and each direction,
\* siblings and the sibling window function of that direction return the
\* same ids in the same order, element by element.
C13_SiblingOrderAgrees ==
    (AccelQuery("siblings") /\ RowById(accel, call.arg).type = "article") =>
        IdSeq(call.result) = IdSeq(SiblingWindow(call.arg, call.direction).rows)


\* ------------------------------------------------------------------------
\* Claims on the sibling function of the bounded evaluator
\* ------------------------------------------------------------------------
\* C14: with the same encoded tree in accel and in optimized_accel, for
\* every node of any type and each direction, xpath_sibling_optimized
\* returns the same id set as the sibling window function of that
\* direction.
C14_OptimizedSiblingsAgree ==
    (BothLoaded /\ OptQuery("xpath_sibling_optimized")) =>
        IdSet(call.result) = IdSet(SiblingWindow(call.arg, call.direction).rows)


\* ------------------------------------------------------------------------
\* Claims on the handling of errors
\* ------------------------------------------------------------------------
\* the axis functions that take a context id
AxisOps == {"descendant_nodes", "siblings"} \cup WindowOps

\* C15: with either layout set up, every axis function called on a context
\* id that no row of the store has returns an empty result and raises no
\* error; so does ancestor_nodes, which takes a text, on a text no node has.
C15_AbsentContextIsEmpty ==
    /\ (/\ call.op \in AxisOps
        /\ HasAccel \/ HasNode
        /\ call.arg \notin StoredIds) =>
          /\ call.status = "ok"
          /\ call.result = <<>>
    /\ (HasAccel \/ HasNode) => ancestor_nodes(AbsentText) = Ok(<<>>)

C15_Witness ==
    /\ call.op \in WindowOps
    /\ call.arg = AbsentId
    /\ call.status = "ok"
    /\ accel # {} \/ NodeT # {}


\* C16: a range-strategy function called while the store is in the
\* edge-only layout fails with an error at the call and returns no result.
C16_RangeFailsOnEdgeLayout ==
    (call.op \in WindowOps /\ HasNode /\ ~HasAccel) => call.status = "error"


\* a node of the tree has no pre_order or no post_order
Unnumbered == \E v \in Nodes : pre_order[v] = None \/ post_order[v] = None

\* C17: insert_to_db on a tree with a node that has no pre_order or no
\* post_order fails with an error, and accel never holds a row whose
\* pre_order or post_order is missing.
C17_UnencodedInsertFails ==
    /\ (call.op = "insert_to_db" /\ Unnumbered) => call.status = "error"
    /\ \A a \in accel : a.pre_order # None /\ a.post_order # None

C17_Witness ==
    /\ call.op = "insert_to_db"
    /\ call.status = "error"
    /\ HasAccel
    /\ pre_order[Root] # None /\ post_order[Root] # None
    /\ \E v \in Nodes : pre_order[v] = None /\ post_order[v] # None


\* what the axis function op returns on the context id in the store as it is
AxisResult(op, id, direction) ==
    CASE op = "descendant_nodes" -> descendant_nodes(id)
      [] op = "siblings" -> siblings(id, direction)
      [] op = "xpath_ancestor_window" -> xpath_ancestor_window(id)
      [] op = "xpath_descendant_window" -> xpath_descendant_window(id)
      [] op = "xpath_following_sibling_window" -> xpath_following_sibling_window(id)
      [] op = "xpath_preceding_sibling_window" -> xpath_preceding_sibling_window(id)

SiblingOps == {"siblings", "xpath_following_sibling_window",
               "xpath_preceding_sibling_window"}

\* the query is one the taxonomy gives a reason for: the id is absent from
\* the store (NodeNotFound), or a sibling query is made on the root (NoParent)
HasReason(op, id) ==
    \/ id \notin StoredIds
    \/ op \in SiblingOps /\ StoredNode(id) = Root

\* C18: what a query returns for an absent id, or a sibling query for the
\* root, differs from what the same function returns for any stored node
\* that has a plain result, so that the caller can tell the two apart.
C18_EmptyCarriesReason ==
    (/\ call.op \in AxisOps
     /\ HasAccel \/ HasNode
     /\ call.status = "ok"
     /\ HasReason(call.op, call.arg)) =>
        \A id \in StoredIds :
            ~HasReason(call.op, id) =>
                AxisResult(call.op, id, call.direction) # Ok(call.result)


\* ------------------------------------------------------------------------
\* Claims on the ids of the ordered layout
\* ------------------------------------------------------------------------
\* C19: after every insert_to_db that succeeded, whatever add_child,
\* annotate_traversal_orders, insert_to_original_db and insert_to_db calls
\* came before it on the same tree, each accel row has as id the current
\* post_order of its node, and the ids are pairwise distinct.
C19_IdIsPostOrder ==
    (call.op = "insert_to_db" /\ call.status = "ok") =>
        /\ \A a \in accel : a.id = post_order[a.s_id]
        /\ \A a, b \in accel : a.id = b.id => a = b


\* ------------------------------------------------------------------------
\* Claims on the determinism of the encoder
\* ------------------------------------------------------------------------
\* the numbering that the shape and the child order alone fix: the place
\* of a node in document order, and the place at which it is left
DocumentOrder(v) == CHOOSE i \in DOMAIN RootCalls : RootCalls[i].node = v
LeaveOrder ==
    CalculatePostOrder(Root, [post |-> NoneOn(Nodes), counter |-> CounterStart]).post

\* C20: the numbers annotate_traversal_orders assigns depend on the shape
\* and the child order of the tree only, and a further call on the
\* unchanged tree gives every node the numbers it has.
C20_EncodingIsDeterministic ==
    /\ [](Encoded => \A v \in Nodes : /\ pre_order[v] = DocumentOrder(v)
                                      /\ post_order[v] = LeaveOrder[v])
    /\ [][(Encoded /\ Encoded' /\ children' = children) =>
            (pre_order' = pre_order /\ post_order' = post_order)]_vars

C20_Witness ==
    /\ Encoded
    /\ accel # {}
    /\ N > Cardinality(accel)
    /\ \E v \in Nodes : Len(children[v]) >= 2


\* ------------------------------------------------------------------------
\* Claims on the boundaries of the axes
\* ------------------------------------------------------------------------
\* v is the first, the last child of its parent
FirstChild(v) == v # Root /\ children[ParentOf(v)][1] = v
LastChild(v) == v # Root /\ children[ParentOf(v)][Len(children[ParentOf(v)])] = v

C22_StoredFieldsExact ==
    (call.op = "insert_optimized_data" /\ call.status = "ok") =>
        /\ {o.s_id : o \in opt_accel} = Nodes
        /\ \A o \in opt_accel :
              /\ o.subtree_size = 1 + Cardinality(DescendantsOf(o.s_id))
              /\ o.level = Cardinality(AncestorsOf(o.s_id))

C22_Witness ==
    /\ call.op = "insert_optimized_data"
    /\ call.status = "ok"
    /\ \E o \in opt_accel : o.level >= 1 /\ o.subtree_size >= 2


\* ------------------------------------------------------------------------
\* Claims on the cost of the encoder
\* ------------------------------------------------------------------------
\* a call of annotate_traversal_orders is under way
Running == call.op = "annotate_traversal_orders" /\ call.status = "running"

\* the nodes that hold a number
Numbered(f) == {v \in Nodes : f[v] # None}

\* C23: a call of annotate_traversal_orders on a tree of N nodes returns;
\* while it runs on a tree not numbered before, as many nodes hold a
\* pre_order, and a post_order, as numbers were handed out, so that no node
\* is numbered twice; when it returns, N numbers of each kind were handed
\* out; and the frames of the recursion never outnumber the nodes on the
\* longest path from the root to a leaf.
C23_EncoderTerminatesLinear ==
    /\ [](Running => Len(stack) <= Height(Root) + 1)
    /\ []((Running /\ post_order[Root] = None) =>
            /\ Cardinality(Numbered(pre_order)) = pre_counter - CounterStart
            /\ Cardinality(Numbered(post_order)) = post_counter - CounterStart)
    /\ [](Encoded => /\ pre_counter = N + CounterStart
                     /\ post_counter = N + CounterStart
                     /\ Numbered(pre_order) = Nodes
                     /\ Numbered(post_order) = Nodes)
    /\ (Running ~> Encoded)

C23_Witness ==
    /\ Running
    /\ post_order[Root] = None
    /\ Len(stack) = Height(Root) + 1
    /\ Len(stack) >= 3
    /\ \E v \in Nodes : Len(children[v]) >= 2


C25_OneLayoutAtATime ==
    ~("accel" \in tables /\ ("Node" \in tables \/ "Edge" \in tables))


\* ------------------------------------------------------------------------
\* Claims on the ids of the edge layout
\* ------------------------------------------------------------------------
\* the place of every node in document order, as the encoder counts it
PreRank == EncRun(EncStart(EncState)).pre

\* C26: when insert_to_original_db has written the first tree into a
\* freshly created edge layout, the id of every Node row is the pre-order
\* rank of its node, counted from 1, and the descendants of the node with
\* id i and a subtree of s nodes are the rows with the ids i+1 .. i+s-1.
C26_EdgeIdIsPreOrderRank ==
    (/\ call.op = "insert_to_original_db"
     /\ call.status = "ok"
     /\ Cardinality(NodeT) = N) =>
        \A n \in NodeT :
            /\ n.id = PreRank[n.s_id]
            /\ {m.id : m \in {x \in NodeT : x.s_id \in DescendantsOf(n.s_id)}}
                  = (n.id + 1)..(n.id + Cardinality(DescendantsOf(n.s_id)))

C26_Witness ==
    /\ call.op = "insert_to_original_db"
    /\ call.status = "ok"
    /\ Cardinality(NodeT) = N
    /\ \E n \in NodeT : n.id > 1 /\ DescendantsOf(n.s_id) # {}


\* ------------------------------------------------------------------------
\* Claims on the order of the bulk insert
\* ------------------------------------------------------------------------
\* the store as insert_to_db, called now, leaves it after its first k nodes
InsertPrefix(k) ==
    InsertToDb(SubSeq(RootCalls, 1, k),
               [dbid |-> db_id, accel |-> accel, content |-> contentT, ok |-> TRUE])

\* the rows of st refer to rows of st
Referenced(st) ==
    /\ \A a \in st.accel : a.parent # None => a.parent \in Ids(st.accel)
    /\ \A c \in st.content : c.id \in Ids(st.accel)

\* insert_to_db, called now, finds an empty accel and a tree that is
\* numbered and was never stored
FreshInsert ==
    /\ HasAccel
    /\ accel = {}
    /\ ~Unnumbered
    /\ \A v \in Nodes : db_id[v] = None

C28_SiblingOrdersAgree ==
    /\ ~Unnumbered =>
          \A u, v \in Nodes :
              (u # v /\ ParentOf(u) = ParentOf(v)) =>
                  (pre_order[u] < pre_order[v] <=> post_order[u] < post_order[v])
    /\ \A r, a \in accel :
          (r.parent # None /\ a.parent = r.parent) =>
              (a.pre_order > r.pre_order <=> a.post_order > r.post_order)
    /\ (AccelQuery("siblings") /\ RowById(accel, call.arg).type = "article") =>
          IdSet(call.result) = IdSet(SiblingWindow(call.arg, call.direction).rows)

C28_Witness ==
    /\ AccelQuery("siblings")
    /\ call.direction = "preceding"
    /\ Len(call.result) >= 2


\* ------------------------------------------------------------------------
\* Claims on the ancestor function of the bounded evaluator
\* ------------------------------------------------------------------------
\* C29: with the same encoded tree in accel and in optimized_accel,
\* xpath_ancestor_optimized and xpath_ancestor_window return the same id
\* set for every node.
C29_OptimizedAncestorsAgree ==
    BothLoaded =>
        /\ OptQuery("xpath_ancestor_optimized") =>
              IdSet(call.result) = IdSet(xpath_ancestor_window(call.arg).rows)
        /\ AccelQuery("xpath_ancestor_window") =>
              IdSet(call.result) = IdSet(xpath_ancestor_optimized(call.arg).rows)

C29_Witness ==
    /\ BothLoaded
    /\ OptQuery("xpath_ancestor_optimized")
    /\ RowById(opt_accel, call.arg).type # "author"
    /\ Len(call.result) >= 2


\* ------------------------------------------------------------------------
\* Claims on the fields of the bounded evaluator and the two numberings
\* ------------------------------------------------------------------------
\* C30: for every node of an encoded tree stored by insert_optimized_data,
\* subtree_size = post_order - pre_order + level + 1, where the level of
\* the root is 0 and both counters start at 1.
C30_SizeFromOrdersAndLevel ==
    (call.op = "insert_optimized_data" /\ call.status = "ok") =>
        /\ \A o \in opt_accel :
              /\ o.subtree_size = o.post_order - o.pre_order + o.level + 1
              /\ o.parent = None => o.level = 0 /\ o.pre_order = CounterStart
        /\ \A v \in Nodes :
              subtree_size[v] = post_order[v] - pre_order[v] + level[v] + 1

C30_Witness ==
    /\ call.op = "insert_optimized_data"
    /\ call.status = "ok"
    /\ \E o \in opt_accel : o.level >= 2
    /\ \E o \in opt_accel : o.level = 1 /\ o.subtree_size >= 2


====
